---- MODULE Spec2Model ----
(***************************************************************************)
(* ChromaSnake / LevelUp: the simulation core of src/components/Game.tsx   *)
(* (moveSnake, handleGesture, retry, handleLevelComplete, resetGame, level *)
(* selection), the score tracker class, the level catalog of               *)
(* src/data/levels.ts and getRandomPosition of src/utils/gameUtils.ts.     *)
(***************************************************************************)
EXTENDS Integers, Sequences, FiniteSets, TLC

(***************************************************************************)
(* Bounds of the model.  The grid of the program is derived from the       *)
(* device window (constants.ts:6-9); the model explores a small torus.     *)
(* The catalog is explored up to its first LevelCount levels.              *)
(***************************************************************************)
GRID_WIDTH == 4

GRID_HEIGHT == 3

LevelCount == 2

\* Ticks explored within one attempt (between two (re)starts of a level).
MaxTicks == 5

\* Ticks explored within one attempt of practice mode.
MaxPracticeTicks == 3

\* Largest grid on which food placement is explored with every obstacle set.
PlaceMaxWidth == 3

PlaceMaxHeight == 2

\* Level ids -MaxLookupId..MaxLookupId are looked up in the catalogs.
MaxLookupId == 30

\* Obstacle generation is explored on grids of GRID_SIZE..ObstMaxWidth columns
\* and 1..ObstMaxHeight rows.
ObstMaxWidth == 21

ObstMaxHeight == 17

\* Frames and timers that can be pending at once in the scheduling model.
MaxFrames == 2

MaxTimers == 2

BASE_SPEED == 200

\* CELL_SIZE = floor(width / GRID_SIZE) and GRID_WIDTH = floor(width / CELL_SIZE),
\* so GRID_WIDTH is at least GRID_SIZE.
GRID_SIZE == 20

InitialLives == 3

InitialFoodXY == 10

(***************************************************************************)
(* Level catalog                                                           *)
(***************************************************************************)
RequiredFoodTable == <<3, 4, 5, 6, 7, 8, 9, 10, 11, 12>>

LevelIds == 1..LevelCount

getLevelCount == LevelCount

\* getLevelById throws "Level <id> not found" for an id outside the catalog.
LevelFound(id) == id \in LevelIds

requiredFood(id) == RequiredFoodTable[id]

getSpeed(id) == BASE_SPEED - 10 * id

Cell(cx, cy) == [x |-> cx, y |-> cy]

\* The cells of a grid of w columns and h rows.
Grid(w, h) == {Cell(cx, cy) : cx \in 0..(w - 1), cy \in 0..(h - 1)}

GridCells == Grid(GRID_WIDTH, GRID_HEIGHT)

\* addBlockAtPosition with GRID_WIDTH = w and GRID_HEIGHT = h: the cells a 2x2
\* block request contributes.
addBlockAtPositionOn(w, h, startX, startY) ==
    IF startX < 0 \/ startX >= w - 1 \/ startY < 0 \/ startY >= h - 1
    THEN {}
    ELSE {Cell(startX + i, startY + j) : i \in 0..1, j \in 0..1}

addBlockAtPosition(startX, startY) ==
    addBlockAtPositionOn(GRID_WIDTH, GRID_HEIGHT, startX, startY)

\* Math.floor(GRID_WIDTH * 0.25), Math.floor(GRID_WIDTH * 0.75), and so on.
Quarter(n) == n \div 4

Half(n) == n \div 2

ThreeQuarters(n) == (3 * n) \div 4

\* Math.floor(n * 0.p) for a fraction of p hundredths.
Pct(p, n) == (p * n) \div 100

\* The values of v in: for (v = from; v < to; v += step)
Steps(from, to, step) == {v \in from..(to - 1) : (v - from) % step = 0}

Abs(v) == IF v < 0 THEN -v ELSE v

FourCornersOn(w, h) ==
    addBlockAtPositionOn(w, h, Quarter(w) - 1, Quarter(h) - 1)
    \cup addBlockAtPositionOn(w, h, Quarter(w) - 1, ThreeQuarters(h) - 1)
    \cup addBlockAtPositionOn(w, h, ThreeQuarters(w) - 1, Quarter(h) - 1)
    \cup addBlockAtPositionOn(w, h, ThreeQuarters(w) - 1, ThreeQuarters(h) - 1)

FourCorners == FourCornersOn(GRID_WIDTH, GRID_HEIGHT)

\* Level 2: First Blocks.
FirstBlocks(w, h) ==
    addBlockAtPositionOn(w, h, Quarter(w) - 1, Quarter(h) - 1)
    \cup addBlockAtPositionOn(w, h, ThreeQuarters(w) - 1, ThreeQuarters(h) - 1)

\* Level 4: four corners plus centre.
FourCornersPlusCenter(w, h) ==
    FourCornersOn(w, h) \cup addBlockAtPositionOn(w, h, Half(w) - 1, Half(h) - 1)

\* Level 5: Zigzag Corridor.
ZigzagCorridor(w, h) ==
    LET rightBarrierX == Pct(66, w) - 1
        connectionY   == Pct(70, h)
    IN  UNION {addBlockAtPositionOn(w, h, Pct(33, w) - 1, y) :
                   y \in Steps(2, Pct(40, h), 2)}
        \cup UNION {addBlockAtPositionOn(w, h, Half(w) - 1, y) :
                        y \in Steps(Pct(40, h), Pct(60, h), 2)}
        \cup UNION {addBlockAtPositionOn(w, h, rightBarrierX, y) :
                        y \in Steps(Pct(60, h), h - 2, 2)}
        \cup addBlockAtPositionOn(w, h, Pct(20, w) - 1, Pct(30, h) - 1)
        \cup addBlockAtPositionOn(w, h, rightBarrierX + 2, connectionY)

\* Level 6: the list spiralPositions (top, right side, bottom, left inner wall).
spiralPositions(w, h) ==
    LET top    == Pct(80, w)
        right  == Pct(60, h)
        bottom == Pct(60, w)
        left   == Pct(30, h)
    IN  [k \in 1..(top + right + bottom + left) |->
            IF k <= top
            THEN Cell(Pct(10, w) + (k - 1), Pct(20, h))
            ELSE IF k <= top + right
            THEN Cell(Pct(80, w), Pct(20, h) + (k - top - 1))
            ELSE IF k <= top + right + bottom
            THEN Cell(Pct(80, w) - (k - top - right - 1), Pct(80, h))
            ELSE Cell(Pct(20, w), Pct(80, h) - (k - top - right - bottom - 1))]

\* Level 6: Spiral Path keeps the positions of even index (index = k - 1).
SpiralPath(w, h) ==
    {spiralPositions(w, h)[k] :
        k \in {k \in 1..Len(spiralPositions(w, h)) : (k - 1) % 2 = 0}}

\* Level 7: Maze Chambers.  The step of the divider loop is
\* Math.floor(GRID_WIDTH * 0.33), positive because GRID_WIDTH >= GRID_SIZE.
MazeChambers(w, h) ==
    LET step == Pct(33, w)
        passage(y) == \/ (y > Pct(30, h) /\ y < Pct(40, h))
                      \/ (y > Pct(60, h) /\ y < Pct(70, h))
    IN  {Cell(x, y) : x \in Steps(step, Pct(66, w) + 1, step),
                      y \in {y \in 2..(h - 3) : ~passage(y)}}
        \cup {Cell(x, Half(h)) : x \in 2..(Pct(33, w) - 3)}
        \cup UNION {{Cell(x, Pct(30, h)), Cell(x, Pct(70, h))} :
                        x \in {x \in (Pct(33, w) + 2)..(Pct(66, w) - 3) : x % 3 # 0}}
        \cup {Cell(x, Half(h)) : x \in (Pct(66, w) + 2)..(w - 3)}

\* Level 8: H Pattern.
HPattern(w, h) ==
    LET leftColumnX  == Quarter(w) - 1
        rightColumnX == ThreeQuarters(w) - 1
        midY         == Half(h) - 1
        startX       == leftColumnX + 2
        endX         == Pct(65, w)
    IN  UNION {addBlockAtPositionOn(w, h, leftColumnX, y) :
                   y \in Steps(Quarter(h), ThreeQuarters(h) + 1, 3)}
        \cup UNION {addBlockAtPositionOn(w, h, rightColumnX, y) :
                        y \in Steps(Quarter(h), ThreeQuarters(h) + 1, 3)}
        \cup UNION {{Cell(x, midY), Cell(x, midY + 1)} : x \in startX..endX}

\* Level 9: Mini Maze.
MiniMaze(w, h) ==
    UNION {addBlockAtPositionOn(w, h, (w \div 3) - 1, y)
               \cup addBlockAtPositionOn(w, h, ((w * 2) \div 3) - 1, y) :
               y \in {y \in Steps(2, h - 2, 2) : y % 4 # 0}}
    \cup UNION {addBlockAtPositionOn(w, h, x, (h \div 3) - 1)
                    \cup addBlockAtPositionOn(w, h, x, ((h * 2) \div 3) - 1) :
                    x \in {x \in Steps(2, w - 2, 2) : x % 4 # 0}}

\* Level 10: Maze Master.
MazeMaster(w, h) ==
    LET outerMargin == 4
        innerMargin == 8
    IN  UNION {{Cell(x, outerMargin), Cell(x, h - outerMargin - 1)} :
                   x \in {x \in outerMargin..(w - outerMargin - 1) : x # Half(w)}}
        \cup UNION {{Cell(outerMargin, y), Cell(w - outerMargin - 1, y)} :
                        y \in outerMargin..(h - outerMargin - 1)}
        \cup UNION {{Cell(x, innerMargin), Cell(x, h - innerMargin - 1)} :
                        x \in {x \in innerMargin..(w - innerMargin - 1) :
                                   x # Half(w) - 3 /\ x # Half(w) + 3}}
        \cup UNION {{Cell(innerMargin, y), Cell(w - innerMargin - 1, y)} :
                        y \in {y \in innerMargin..(h - innerMargin - 1) : y # Half(h)}}
        \cup addBlockAtPositionOn(w, h, Pct(30, w) - 1, Pct(30, h) - 1)
        \cup addBlockAtPositionOn(w, h, Pct(70, w) - 1, Pct(70, h) - 1)
        \cup addBlockAtPositionOn(w, h, Pct(70, w) - 1, Pct(30, h) - 1)

\* Level 11 of the 15-level catalog: Double Box Maze.
DoubleBoxMaze(w, h) ==
    LET outerMargin == 3
        innerMargin == 7
    IN  UNION {{Cell(x, outerMargin), Cell(x, h - outerMargin - 1)} :
                   x \in {x \in outerMargin..(w - outerMargin - 1) : x # Half(w)}}
        \cup UNION {{Cell(outerMargin, y), Cell(w - outerMargin - 1, y)} :
                        y \in outerMargin..(h - outerMargin - 1)}
        \cup UNION {{Cell(x, innerMargin), Cell(x, h - innerMargin - 1)} :
                        x \in {x \in innerMargin..(w - innerMargin - 1) : x # Half(w) - 2}}
        \cup UNION {{Cell(innerMargin, y), Cell(w - innerMargin - 1, y)} :
                        y \in {y \in innerMargin..(h - innerMargin - 1) : y # Half(h) + 2}}
        \cup addBlockAtPositionOn(w, h, Quarter(w), Quarter(h))
        \cup addBlockAtPositionOn(w, h, ThreeQuarters(w) - 2, ThreeQuarters(h) - 2)

\* Level 12: Triple Box Challenge, margins [3, 6, 9].
TripleBoxChallenge(w, h) ==
    UNION {LET margin == 3 * (index + 1)
           IN  UNION {{Cell(x, margin), Cell(x, h - margin - 1)} :
                          x \in {x \in margin..(w - margin - 1) :
                                     x # Half(w) + index - 1}}
               \cup UNION {{Cell(margin, y), Cell(w - margin - 1, y)} :
                               y \in {y \in margin..(h - margin - 1) :
                                          y # Half(h) - index + 1}} :
           index \in 0..2}

\* The outer frame shared by levels 13 and 14 (margin 3, gaps at the quarters).
QuarterGapFrame(w, h) ==
    LET margin == 3
    IN  UNION {{Cell(x, margin), Cell(x, h - margin - 1)} :
                   x \in {x \in margin..(w - margin - 1) :
                              x # Quarter(w) /\ x # ThreeQuarters(w)}}
        \cup UNION {{Cell(margin, y), Cell(w - margin - 1, y)} :
                        y \in {y \in margin..(h - margin - 1) :
                                   y # Quarter(h) /\ y # ThreeQuarters(h)}}

\* Level 13: Cross Box Maze.
CrossBoxMaze(w, h) ==
    LET margin == 3
        mid    == Half(w)
        quadrants == {Cell(margin + 2, margin + 2), Cell(w - margin - 5, margin + 2),
                      Cell(margin + 2, h - margin - 5), Cell(w - margin - 5, h - margin - 5)}
    IN  QuarterGapFrame(w, h)
        \cup UNION {{Cell(x, mid + dy - 1) : dy \in 0..1} :
                        x \in {x \in (margin + 3)..(w - margin - 4) : Abs(x - mid) > 1}}
        \cup UNION {{Cell(mid + dx - 1, y) : dx \in 0..1} :
                        y \in {y \in (margin + 3)..(h - margin - 4) : Abs(y - Half(h)) > 1}}
        \cup UNION {addBlockAtPositionOn(w, h, pos.x, pos.y)
                        \cup {Cell(pos.x - 1, pos.y + 1), Cell(pos.x + 2, pos.y + 1)} :
                        pos \in quadrants}

\* Level 14: Maze Chambers Elite.
MazeChambersElite(w, h) ==
    LET margin == 3
        thirds == w \div 3
        chamberYs == <<Quarter(h), Half(h), ThreeQuarters(h)>>
    IN  QuarterGapFrame(w, h)
        \cup {Cell(thirds, y) : y \in {y \in (margin + 2)..(h - margin - 3) : y % 5 # 0}}
        \cup {Cell(thirds * 2, y) :
                  y \in {y \in (margin + 2)..(h - margin - 3) : y % 5 # 0 /\ y % 3 # 0}}
        \cup UNION {{Cell(x, chamberYs[index + 1]) :
                         x \in {x \in (margin + 2)..(w - margin - 3) :
                                    /\ x # thirds + 1
                                    /\ x # thirds * 2 - 1
                                    /\ x % (4 + index) # 0}} :
                        index \in 0..2}
        \cup addBlockAtPositionOn(w, h, Pct(20, w), Pct(30, h))
        \cup addBlockAtPositionOn(w, h, Half(w), Pct(40, h))
        \cup addBlockAtPositionOn(w, h, Pct(80, w), Pct(60, h))
        \cup addBlockAtPositionOn(w, h, Pct(30, w), Pct(70, h))

\* Box outlines that start one cell closer to the border.
marginsFromOne(index) == 1 + 3 * index

\* const margins = [2, 5, 8], by index 0..2.
margins(index) == 2 + 3 * index

\* Level 15: Ultimate Labyrinth.
UltimateLabyrinth(w, h) ==
    LET mid == Half(w)
    IN  UNION {LET margin == margins(index)
               IN  UNION {{Cell(x, margin), Cell(x, h - margin - 1)} :
                              x \in {x \in margin..(w - margin - 1) : (x + index) % 3 # 0}}
                   \cup UNION {{Cell(margin, y), Cell(w - margin - 1, y)} :
                                   y \in {y \in margin..(h - margin - 1) :
                                              (y + index) % 3 # 0}} :
               index \in 0..2}
        \cup addBlockAtPositionOn(w, h, Quarter(w) - 1, Quarter(h) - 1)
        \cup addBlockAtPositionOn(w, h, Half(w) - 1, Half(h) - 1)
        \cup addBlockAtPositionOn(w, h, ThreeQuarters(w) - 1, ThreeQuarters(h) - 1)
        \cup UNION {{Cell(i, mid), Cell(mid, i)} :
                        i \in {i \in 4..(w - 5) : Abs(i - mid) > 1}}

\* levels[id - 1].generateObstacles() with GRID_WIDTH = w and GRID_HEIGHT = h,
\* as a set of cells; ids 11..15 exist in the 15-level catalog only.
generateObstaclesOn(id, w, h) ==
    CASE id = 1  -> {}
      [] id = 2  -> FirstBlocks(w, h)
      [] id = 3  -> FourCornersOn(w, h)
      [] id = 4  -> FourCornersPlusCenter(w, h)
      [] id = 5  -> ZigzagCorridor(w, h)
      [] id = 6  -> SpiralPath(w, h)
      [] id = 7  -> MazeChambers(w, h)
      [] id = 8  -> HPattern(w, h)
      [] id = 9  -> MiniMaze(w, h)
      [] id = 10 -> MazeMaster(w, h)
      [] id = 11 -> DoubleBoxMaze(w, h)
      [] id = 12 -> TripleBoxChallenge(w, h)
      [] id = 13 -> CrossBoxMaze(w, h)
      [] id = 14 -> MazeChambersElite(w, h)
      [] id = 15 -> UltimateLabyrinth(w, h)

\* levels[id].generateObstacles() on the grid of the game.
generateObstacles(id) == generateObstaclesOn(id, GRID_WIDTH, GRID_HEIGHT)

(***************************************************************************)
(* Directions                                                              *)
(***************************************************************************)
DirectionNames == {"UP", "DOWN", "LEFT", "RIGHT"}

DIRECTIONS(d) ==
    CASE d = "UP"    -> Cell(0, -1)
      [] d = "DOWN"  -> Cell(0, 1)
      [] d = "LEFT"  -> Cell(-1, 0)
      [] d = "RIGHT" -> Cell(1, 0)

opposites(d) ==
    CASE d = "UP"    -> "DOWN"
      [] d = "DOWN"  -> "UP"
      [] d = "LEFT"  -> "RIGHT"
      [] d = "RIGHT" -> "LEFT"

(***************************************************************************)
(* Food placement: the cells getRandomPosition(obstacles, snake) can       *)
(* return.  Math.random picks any index of availablePositions.             *)
(***************************************************************************)
SnakeCells(s) == {s[i] : i \in 1..Len(s)}

\* A filter that forgets to exclude the obstacles.
availablePositionsOnIgnoresObstacles(w, h, obs, s) == Grid(w, h) \ SnakeCells(s)

\* availablePositions on a grid of w columns and h rows.
availablePositionsOn(w, h, obs, s) == Grid(w, h) \ (obs \cup SnakeCells(s))

availablePositions(obs, s) == availablePositionsOn(GRID_WIDTH, GRID_HEIGHT, obs, s)

\* The fallback search (x in 1..w-2, y in 1..h-2) and the centre spiral look
\* for a free cell again; the last resort is the fixed cell (1,1).
fallbackPositionsOn(w, h, obs, s) ==
    {c \in Grid(w, h) : c.x >= 1 /\ c.x < w - 1 /\ c.y >= 1 /\ c.y < h - 1}
        \ (obs \cup SnakeCells(s))

fallbackPositions(obs, s) == fallbackPositionsOn(GRID_WIDTH, GRID_HEIGHT, obs, s)

\* The spiral around (floor(w/2), floor(h/2)), radius 1 .. max(w,h)-1.
spiralPositionsOn(w, h, obs, s) ==
    {c \in Grid(w, h) :
        \E radius \in 1..((IF w > h THEN w ELSE h) - 1) :
            /\ c.x - (w \div 2) \in (-radius)..radius
            /\ c.y - (h \div 2) \in (-radius)..radius}
        \ (obs \cup SnakeCells(s))

\* getRandomPosition with GRID_WIDTH = w and GRID_HEIGHT = h: the cells it
\* can return.
getRandomPositionOn(w, h, obs, s) ==
    IF w <= 0 \/ h <= 0 THEN {Cell(1, 1)}
    ELSE IF availablePositionsOn(w, h, obs, s) # {} THEN availablePositionsOn(w, h, obs, s)
    ELSE IF fallbackPositionsOn(w, h, obs, s) # {} THEN fallbackPositionsOn(w, h, obs, s)
    ELSE IF spiralPositionsOn(w, h, obs, s) # {} THEN spiralPositionsOn(w, h, obs, s)
    ELSE {Cell(1, 1)}

getRandomPosition(obs, s) == getRandomPositionOn(GRID_WIDTH, GRID_HEIGHT, obs, s)

\* The getRandomPosition of the earlier gameUtils (no grid validation, a
\* fallback scan from the top-left, last resort the centre of the board).
getRandomPositionPart002(w, h, obs, s) ==
    IF availablePositionsOn(w, h, obs, s) # {} THEN availablePositionsOn(w, h, obs, s)
    ELSE {Cell(w \div 2, h \div 2)}

(***************************************************************************)
(* ScoreTracker                                                            *)
(***************************************************************************)
RECURSIVE getMinimumScoreForLevel(_)
getMinimumScoreForLevel(level) ==
    IF level <= 1 THEN 0
    ELSE getMinimumScoreForLevel(level - 1) + requiredFood(level - 1)

NewScoreTracker ==
    [currentLevel         |-> 1,
     remainingFoodInLevel |-> requiredFood(1),
     foodEatenCount       |-> 0,
     totalFoodEaten       |-> 0,
     baseLevelScore       |-> 0,
     currentAttemptScore  |-> 0]

\* A setLevel that restarts the score from zero instead of the level's base.
setLevelFromZero(t, level) ==
    [currentLevel         |-> level,
     remainingFoodInLevel |-> requiredFood(level),
     foodEatenCount       |-> 0,
     baseLevelScore       |-> 0,
     currentAttemptScore  |-> 0,
     totalFoodEaten       |-> 0]

setLevel(t, level) ==
    [currentLevel         |-> level,
     remainingFoodInLevel |-> requiredFood(level),
     foodEatenCount       |-> 0,
     baseLevelScore       |-> getMinimumScoreForLevel(level),
     currentAttemptScore  |-> 0,
     totalFoodEaten       |-> getMinimumScoreForLevel(level)]

\* An increment that forgets the remaining-food counter.
incrementFoodEatenKeepsRemaining(t) ==
    [t EXCEPT !.foodEatenCount       = @ + 1,
              !.currentAttemptScore  = @ + 1,
              !.totalFoodEaten       = t.baseLevelScore + t.currentAttemptScore + 1]

\* The tracker after incrementFoodEaten().
incrementFoodEaten(t) ==
    [t EXCEPT !.foodEatenCount       = @ + 1,
              !.currentAttemptScore  = @ + 1,
              !.totalFoodEaten       = t.baseLevelScore + t.currentAttemptScore + 1,
              !.remainingFoodInLevel = @ - 1]

\* A completion test that fires one food early.
incrementFoodEatenResultOneEarly(t) ==
    incrementFoodEaten(t).remainingFoodInLevel <= 1
        /\ incrementFoodEaten(t).currentLevel < getLevelCount

\* The value incrementFoodEaten() returns, from the tracker it leaves.
incrementFoodEatenResult(t) ==
    incrementFoodEaten(t).remainingFoodInLevel = 0
        /\ incrementFoodEaten(t).currentLevel < getLevelCount

\* An advance that forgets to re-baseline the score.
advanceToNextLevelKeepsBase(t) ==
    IF t.currentLevel < getLevelCount
    THEN [t EXCEPT !.currentLevel         = @ + 1,
                   !.remainingFoodInLevel = requiredFood(t.currentLevel + 1),
                   !.foodEatenCount       = 0,
                   !.currentAttemptScore  = 0]
    ELSE t

\* An advance that keeps the remaining-food counter of the finished level.
advanceToNextLevelKeepsRemaining(t) ==
    IF t.currentLevel < getLevelCount
    THEN [t EXCEPT !.currentLevel         = @ + 1,
                   !.foodEatenCount       = 0,
                   !.baseLevelScore       = t.totalFoodEaten,
                   !.currentAttemptScore  = 0]
    ELSE t

\* An advance that re-baselines even on the last level.
advanceToNextLevelRebaselinesLast(t) ==
    IF t.currentLevel < getLevelCount
    THEN [t EXCEPT !.currentLevel         = @ + 1,
                   !.remainingFoodInLevel = requiredFood(t.currentLevel + 1),
                   !.foodEatenCount       = 0,
                   !.baseLevelScore       = t.totalFoodEaten,
                   !.currentAttemptScore  = 0]
    ELSE [t EXCEPT !.foodEatenCount       = 0,
                   !.baseLevelScore       = t.totalFoodEaten,
                   !.currentAttemptScore  = 0]

advanceToNextLevel(t) ==
    IF t.currentLevel < getLevelCount
    THEN [t EXCEPT !.currentLevel         = @ + 1,
                   !.remainingFoodInLevel = requiredFood(t.currentLevel + 1),
                   !.foodEatenCount       = 0,
                   !.baseLevelScore       = t.totalFoodEaten,
                   !.currentAttemptScore  = 0]
    ELSE t

\* A setScore that resets the level counters but keeps the attempt's food.
setScoreKeepsAttempt(t, score) ==
    [t EXCEPT !.foodEatenCount       = 0,
              !.remainingFoodInLevel = requiredFood(t.currentLevel)]

\* setScore ignores its argument: it resets to the base score of the level.
setScore(t, score) ==
    [t EXCEPT !.totalFoodEaten       = t.baseLevelScore,
              !.currentAttemptScore  = 0,
              !.foodEatenCount       = 0,
              !.remainingFoodInLevel = requiredFood(t.currentLevel)]

\* A reset that selects the level but starts its baseline at zero.
resetWithoutBaseline(t, selectedLevel) ==
    [currentLevel         |-> selectedLevel,
     remainingFoodInLevel |-> requiredFood(selectedLevel),
     foodEatenCount       |-> 0,
     baseLevelScore       |-> 0,
     currentAttemptScore  |-> 0,
     totalFoodEaten       |-> 0]

reset(t, selectedLevel) ==
    [currentLevel         |-> selectedLevel,
     remainingFoodInLevel |-> requiredFood(selectedLevel),
     foodEatenCount       |-> 0,
     baseLevelScore       |-> getMinimumScoreForLevel(selectedLevel),
     currentAttemptScore  |-> 0,
     totalFoodEaten       |-> getMinimumScoreForLevel(selectedLevel)]

(***************************************************************************)
(* State of the Game component                                             *)
(***************************************************************************)
VARIABLES
    gameState,                \* useState({...initialState})
    obstacles,                \* useState<Obstacle[]>
    levelSpeed,               \* useState(BASE_SPEED)
    scoreTracker,             \* useRef(new ScoreTracker())
    isReplayMode,             \* useState(false)
    hasCompletedPlaythrough,  \* useState(false)
    currentSessionHighScore,  \* useState(0)
    ticks,                    \* ticks taken since the attempt began (bounded by MaxTicks)
    call,                     \* the library call under study (library specifications only)
    animationFrame            \* useRef animationFrameId: the requested frame and the
                              \* render whose gameLoop it will run

vars == <<gameState, obstacles, levelSpeed, scoreTracker, isReplayMode,
          hasCompletedPlaythrough, currentSessionHighScore, ticks, call, animationFrame>>

\* The game itself never uses the variable call.
NoCall == [fn |-> "none"]

\* animationFrameId.current === null: no frame is requested.
NoFrame == [scheduled |-> FALSE, obstacles |-> {}, isReplayMode |-> FALSE]

\* requestAnimationFrame(gameLoop) for the gameLoop of a render: the
\* moveSnake it calls reads obstacles and isReplayMode of that render,
\* whatever the state becomes later.  (gameLoop reads the levelSpeed of its
\* render in the same way; the model keeps no clock and leaves it out.)
Frame(obs, replay) ==
    [scheduled |-> TRUE, obstacles |-> obs, isReplayMode |-> replay]

initialSnake == <<Cell(2, 1), Cell(1, 1), Cell(0, 1)>>

initialState ==
    [snake              |-> initialSnake,
     food               |-> Cell(InitialFoodXY, InitialFoodXY),
     direction          |-> "RIGHT",
     score              |-> 0,
     gameOver           |-> FALSE,
     showRules          |-> TRUE,
     showLevelSelection |-> FALSE,
     level              |-> 1,
     levelComplete      |-> FALSE,
     remainingFood      |-> requiredFood(1),
     lives              |-> InitialLives,
     levelStartScore    |-> 0]

\* The state once the component is mounted (the mount effect has loaded the
\* obstacles and the speed of level 1).
Init ==
    /\ gameState = initialState
    /\ obstacles = generateObstacles(1)
    /\ levelSpeed = getSpeed(1)
    /\ scoreTracker = NewScoreTracker
    /\ isReplayMode = FALSE
    /\ hasCompletedPlaythrough = FALSE
    /\ currentSessionHighScore = 0
    /\ ticks = 0
    /\ call = NoCall
    /\ animationFrame = NoFrame

(***************************************************************************)
(* What is on screen (the render of Game) and whether the frame loop runs  *)
(* (the effect on gameOver, levelComplete, level, levelSpeed, showRules).  *)
(***************************************************************************)
StartScreenShown == gameState.showRules /\ ~hasCompletedPlaythrough

LevelSelectionShown ==
    ~StartScreenShown
        /\ (gameState.showLevelSelection \/ (gameState.showRules /\ hasCompletedPlaythrough))

GameScreenShown == ~gameState.showRules /\ ~gameState.showLevelSelection

RetryScreenShown ==
    GameScreenShown /\ gameState.gameOver /\ ~isReplayMode /\ gameState.lives > 0

GameOverScreenShown ==
    GameScreenShown /\ gameState.gameOver /\ ~isReplayMode /\ gameState.lives <= 0

PracticeRetryScreenShown == GameScreenShown /\ gameState.gameOver /\ isReplayMode

LevelCompleteScreenShown == GameScreenShown /\ gameState.levelComplete

\* The dependency list of the game-loop effect.
LoopDeps(gs, speed) == <<gs.gameOver, gs.levelComplete, gs.level, speed, gs.showRules>>

\* An effect whose loop tests an empty obstacle list.
EffectFrameWithoutObstacles(gs, obs, replay) ==
    IF gs.showRules \/ gs.gameOver \/ gs.levelComplete
    THEN NoFrame
    ELSE Frame({}, replay)

\* The game-loop effect of a render: it cancels the requested frame and
\* requests one for the gameLoop of this render if the game is running.
EffectFrame(gs, obs, replay) ==
    IF gs.showRules \/ gs.gameOver \/ gs.levelComplete
    THEN NoFrame
    ELSE Frame(obs, replay)

\* A frame requested for a gameLoop that takes the game for a normal one.
StaleFrameOfNormalGame ==
    IF gameState.gameOver \/ gameState.levelComplete
    THEN NoFrame
    ELSE Frame(obstacles, FALSE)

\* requestAnimationFrame(gameLoop) from a timer or a handler created in the
\* render of the current state: that gameLoop reads gameOver and
\* levelComplete of its own render and stops at once if either is set.
StaleFrame ==
    IF gameState.gameOver \/ gameState.levelComplete
    THEN NoFrame
    ELSE Frame(obstacles, isReplayMode)

\* The frame requested once the new state is committed: the effect runs again
\* only if one of its dependencies changed, otherwise the frame is the one
\* the handler left.
Committed(handlerFrame) ==
    IF LoopDeps(gameState', levelSpeed') # LoopDeps(gameState, levelSpeed)
    THEN EffectFrame(gameState', obstacles', isReplayMode')
    ELSE handlerFrame

\* The delayed start of resetGame and handleLevelComplete:
\* if (animationFrameId.current === null) requestAnimationFrame(gameLoop).
StartIfNull(frame) == IF frame.scheduled THEN frame ELSE StaleFrame

(***************************************************************************)
(* moveSnake                                                               *)
(***************************************************************************)
\* A head computed without wrapping at the grid edges.
newHeadNoWrap(gs) ==
    Cell(gs.snake[1].x + DIRECTIONS(gs.direction).x,
         gs.snake[1].y + DIRECTIONS(gs.direction).y)

newHead(gs) ==
    Cell((gs.snake[1].x + DIRECTIONS(gs.direction).x + GRID_WIDTH) % GRID_WIDTH,
         (gs.snake[1].y + DIRECTIONS(gs.direction).y + GRID_HEIGHT) % GRID_HEIGHT)

\* A self-collision check that also counts the cell the tail is leaving.
selfCollisionIncludesTail(gs) ==
    \E i \in 1..Len(gs.snake) : gs.snake[i] = newHead(gs)

\* newSnake.slice(1, -1): the old body without its tail cell.
selfCollision(gs) ==
    \E i \in 1..(Len(gs.snake) - 1) : gs.snake[i] = newHead(gs)

obstacleCollision(gs, obs) == newHead(gs) \in obs

foodEaten(gs) == newHead(gs) = gs.food

\* A move that forgets to remove the tail.
popTailKeepsTail(s) == s

popTail(s) == SubSeq(s, 1, Len(s) - 1)

\* A collision that costs two lives.
newLivesLosesTwo(gs) == gs.lives - 2

\* lives: currentGameState.lives - 1
newLives(gs) == gs.lives - 1

isGameOver(gs) == newLives(gs) <= 0

\* A final score that drops the food of the failed attempt.
finalScoreDropsAttempt(t) == t.baseLevelScore

\* getBaseLevelScore() + getCurrentAttemptScore()
finalScore(t) == t.baseLevelScore + t.currentAttemptScore

\* The updater ignores every state but one that is already over.
gameAlreadyOverIgnored(gs) == FALSE

\* if (currentGameState.gameOver) return currentGameState
gameAlreadyOver(gs) == gs.gameOver

\* moveSnake as called by the gameLoop of the render that requested frame:
\* the updater runs on the current state with the obstacles and isReplayMode
\* of that render.
moveSnakeOf(frame) ==
    /\ ticks < (IF isReplayMode THEN MaxPracticeTicks ELSE MaxTicks)
    /\ ticks' = ticks + 1
    /\ IF gameAlreadyOver(gameState)
       THEN UNCHANGED <<gameState, obstacles, levelSpeed, scoreTracker, isReplayMode,
                        hasCompletedPlaythrough, currentSessionHighScore>>
       ELSE
       LET head     == newHead(gameState)
           newSnake == <<head>> \o gameState.snake
       IN
       IF selfCollision(gameState) \/ obstacleCollision(gameState, frame.obstacles)
       THEN IF frame.isReplayMode
            THEN /\ gameState' = [gameState EXCEPT !.snake = newSnake, !.gameOver = TRUE]
                 /\ UNCHANGED <<obstacles, levelSpeed, scoreTracker, isReplayMode,
                                hasCompletedPlaythrough, currentSessionHighScore>>
            ELSE /\ scoreTracker' =
                        IF isGameOver(gameState) THEN scoreTracker
                        ELSE setScore(scoreTracker, gameState.levelStartScore)
                 /\ currentSessionHighScore' =
                        IF isGameOver(gameState) THEN finalScore(scoreTracker)
                        ELSE currentSessionHighScore
                 /\ gameState' = [gameState EXCEPT
                        !.snake    = newSnake,
                        !.gameOver = TRUE,
                        !.lives    = newLives(gameState),
                        !.score    = IF isGameOver(gameState)
                                     THEN finalScore(scoreTracker)
                                     ELSE scoreTracker'.baseLevelScore]
                 \* GameOverScreen's mount effect.
                 /\ hasCompletedPlaythrough' =
                        IF isGameOver(gameState) THEN TRUE ELSE hasCompletedPlaythrough
                 /\ UNCHANGED <<obstacles, levelSpeed, isReplayMode>>
       ELSE IF foodEaten(gameState)
       THEN /\ scoreTracker' = incrementFoodEaten(scoreTracker)
            /\ IF incrementFoodEatenResult(scoreTracker)
               THEN /\ currentSessionHighScore' = scoreTracker'.totalFoodEaten
                    /\ gameState' = [gameState EXCEPT
                           !.snake           = newSnake,
                           !.levelComplete   = TRUE,
                           !.score           = scoreTracker'.totalFoodEaten,
                           !.remainingFood   = 0,
                           !.lives           = 3,
                           !.levelStartScore = scoreTracker'.totalFoodEaten]
               ELSE /\ \E pos \in getRandomPosition(frame.obstacles, newSnake) :
                           gameState' = [gameState EXCEPT
                               !.snake         = newSnake,
                               !.food          = pos,
                               !.score         = scoreTracker'.totalFoodEaten,
                               !.remainingFood = scoreTracker'.remainingFoodInLevel]
                    /\ UNCHANGED currentSessionHighScore
            /\ UNCHANGED <<obstacles, levelSpeed, isReplayMode, hasCompletedPlaythrough>>
       ELSE /\ gameState' = [gameState EXCEPT !.snake = popTail(newSnake)]
            /\ UNCHANGED <<obstacles, levelSpeed, scoreTracker, isReplayMode,
                           hasCompletedPlaythrough, currentSessionHighScore>>

moveSnake ==
    /\ animationFrame.scheduled
    /\ moveSnakeOf(animationFrame)
    /\ UNCHANGED call
    \* gameLoop requests the next frame for itself; the effect stops the loop
    \* when the tick has set gameOver or levelComplete.
    /\ animationFrame' = Committed(animationFrame)

(***************************************************************************)
(* handleGesture                                                           *)
(***************************************************************************)
\* A handler that accepts every direction, the exact opposite included.
handleGestureAcceptsAll(direction) ==
    /\ GameScreenShown /\ ~gameState.gameOver /\ ~gameState.levelComplete
    /\ gameState' = [gameState EXCEPT !.direction = direction]
    /\ UNCHANGED <<obstacles, levelSpeed, scoreTracker, isReplayMode,
                   hasCompletedPlaythrough, currentSessionHighScore, ticks, call,
                   animationFrame>>

handleGesture(direction) ==
    /\ GameScreenShown /\ ~gameState.gameOver /\ ~gameState.levelComplete
    /\ gameState' = IF gameState.direction = opposites(direction)
                    THEN gameState
                    ELSE [gameState EXCEPT !.direction = direction]
    /\ UNCHANGED <<obstacles, levelSpeed, scoreTracker, isReplayMode,
                   hasCompletedPlaythrough, currentSessionHighScore, ticks, call,
                   animationFrame>>

(***************************************************************************)
(* RetryScreen onPress                                                     *)
(***************************************************************************)
retryLevel ==
    /\ RetryScreenShown
    /\ LevelFound(gameState.level)
    /\ scoreTracker' = setLevel(scoreTracker, gameState.level)
    /\ \E pos \in getRandomPosition(obstacles, initialSnake) :
           gameState' = [gameState EXCEPT
               !.snake         = initialSnake,
               !.direction     = "RIGHT",
               !.gameOver      = FALSE,
               !.remainingFood = requiredFood(gameState.level),
               !.food          = pos,
               !.score         = scoreTracker'.totalFoodEaten]
    /\ UNCHANGED <<obstacles, levelSpeed, isReplayMode, hasCompletedPlaythrough,
                   currentSessionHighScore>>
    /\ ticks' = 0
    /\ UNCHANGED call
    \* The handler requests a frame if none is requested; the effect follows.
    /\ animationFrame' = Committed(IF animationFrame.scheduled THEN animationFrame
                                   ELSE StaleFrame)

(***************************************************************************)
(* handleLevelComplete (the "Start Level n" button)                        *)
(***************************************************************************)
handleLevelComplete ==
    /\ LevelCompleteScreenShown
    /\ gameState.level + 1 <= getLevelCount
    /\ scoreTracker' = advanceToNextLevel(scoreTracker)
    /\ LevelFound(scoreTracker'.currentLevel)
    /\ levelSpeed' = getSpeed(scoreTracker'.currentLevel)
    /\ obstacles' = generateObstacles(scoreTracker'.currentLevel)
    /\ \E pos \in getRandomPosition(obstacles', initialSnake) :
           gameState' = [initialState EXCEPT
               !.showRules       = FALSE,
               !.level           = scoreTracker'.currentLevel,
               !.remainingFood   = scoreTracker'.remainingFoodInLevel,
               !.score           = scoreTracker.totalFoodEaten,
               !.levelStartScore = scoreTracker.totalFoodEaten,
               !.snake           = initialSnake,
               !.food            = pos,
               !.levelComplete   = FALSE,
               !.lives           = 3]
    /\ UNCHANGED <<isReplayMode, hasCompletedPlaythrough, currentSessionHighScore>>
    /\ ticks' = 0
    /\ UNCHANGED call
    /\ animationFrame' = StartIfNull(Committed(NoFrame))

(***************************************************************************)
(* resetGame(selectedLevel); replay is the value of isReplayMode the       *)
(* calling render saw.                                                     *)
(***************************************************************************)
resetGame(selectedLevel, replay) ==
    /\ LevelFound(selectedLevel)
    /\ scoreTracker' = reset(scoreTracker, selectedLevel)
    /\ obstacles' = generateObstacles(selectedLevel)
    /\ levelSpeed' = getSpeed(selectedLevel)
    /\ \E pos \in getRandomPosition(obstacles', initialSnake) :
           gameState' = [initialState EXCEPT
               !.showRules          = FALSE,
               !.showLevelSelection = FALSE,
               !.level              = selectedLevel,
               !.remainingFood      = requiredFood(selectedLevel),
               !.score              = IF replay THEN 0
                                      ELSE IF selectedLevel > 1
                                           THEN scoreTracker'.baseLevelScore ELSE 0,
               !.levelStartScore    = IF replay THEN 0
                                      ELSE IF selectedLevel > 1
                                           THEN scoreTracker'.baseLevelScore ELSE 0,
               !.snake              = initialSnake,
               !.food               = pos,
               !.lives              = 3]
    /\ currentSessionHighScore' = 0
    /\ ticks' = 0
    /\ UNCHANGED call
    /\ animationFrame' = StartIfNull(Committed(NoFrame))

\* StartScreen "Start from Level 1".
startGame ==
    /\ StartScreenShown
    /\ isReplayMode' = FALSE
    /\ resetGame(1, isReplayMode)
    /\ UNCHANGED hasCompletedPlaythrough

\* PracticeRetryScreen "Retry Level".
practiceRetry ==
    /\ PracticeRetryScreenShown
    /\ UNCHANGED <<isReplayMode, hasCompletedPlaythrough>>
    /\ resetGame(gameState.level, isReplayMode)

(***************************************************************************)
(* GameOverScreen "Home"                                                   *)
(***************************************************************************)
gameOverHome ==
    /\ GameOverScreenShown
    /\ gameState' = [initialState EXCEPT !.showLevelSelection = TRUE, !.showRules = FALSE]
    /\ isReplayMode' = TRUE
    /\ UNCHANGED <<obstacles, levelSpeed, scoreTracker, hasCompletedPlaythrough,
                   currentSessionHighScore>>
    /\ ticks' = 0
    /\ UNCHANGED call
    /\ animationFrame' = Committed(animationFrame)

(***************************************************************************)
(* returnToLevelSelection (header Home in practice mode, PracticeRetry)    *)
(***************************************************************************)
returnToLevelSelection ==
    /\ GameScreenShown /\ isReplayMode /\ ~gameState.levelComplete
    /\ gameState' = [initialState EXCEPT !.showLevelSelection = TRUE, !.showRules = FALSE]
    /\ isReplayMode' = TRUE
    /\ obstacles' = {}
    /\ UNCHANGED <<levelSpeed, scoreTracker, hasCompletedPlaythrough,
                   currentSessionHighScore>>
    /\ ticks' = 0
    /\ UNCHANGED call
    /\ animationFrame' = Committed(NoFrame)

(***************************************************************************)
(* LevelSelectionScreen.startLevel(levelId)                                *)
(***************************************************************************)
startLevel(levelId) ==
    /\ LevelSelectionShown
    /\ LevelFound(levelId)
    /\ isReplayMode' = TRUE
    /\ obstacles' = generateObstacles(levelId)
    /\ levelSpeed' = getSpeed(levelId)
    /\ scoreTracker' = reset(scoreTracker, levelId)
    /\ \E pos \in getRandomPosition(obstacles', initialSnake) :
           gameState' = [initialState EXCEPT
               !.showRules          = FALSE,
               !.showLevelSelection = FALSE,
               !.level              = levelId,
               !.remainingFood      = requiredFood(levelId),
               !.score              = 0,
               !.levelStartScore    = 0,
               !.snake              = initialSnake,
               !.food               = pos,
               !.lives              = 3]
    /\ UNCHANGED <<hasCompletedPlaythrough, currentSessionHighScore>>
    /\ ticks' = 0
    /\ UNCHANGED call
    \* The second timer cancels the frame of the effect and requests one for
    \* the gameLoop of the render in which the level card was pressed.
    /\ animationFrame' = StaleFrame

Next ==
    \/ moveSnake
    \/ \E d \in DirectionNames : handleGesture(d)
    \/ retryLevel
    \/ handleLevelComplete
    \/ startGame
    \/ practiceRetry
    \/ gameOverHome
    \/ returnToLevelSelection
    \/ \E levelId \in LevelIds : startLevel(levelId)

Spec == Init /\ [][Next]_vars

(***************************************************************************)
(* The tracker classes under an arbitrary client.  utils/ScoreTracker.ts   *)
(* holds a variant of the class without the per-level base score; both     *)
(* objects receive the same sequence of method calls.  An id outside the   *)
(* catalog makes getLevelById throw, so the client passes catalog ids.     *)
(***************************************************************************)
\* new ScoreTracker() of utils/ScoreTracker.ts
ScoreTrackerTs_new ==
    [currentLevel         |-> 1,
     remainingFoodInLevel |-> requiredFood(1),
     foodEatenCount       |-> 0,
     totalFoodEaten       |-> 0]

ScoreTrackerTs_setLevel(t, level) ==
    [t EXCEPT !.currentLevel         = level,
              !.remainingFoodInLevel = requiredFood(level)]

ScoreTrackerTs_incrementFoodEaten(t) ==
    [t EXCEPT !.foodEatenCount       = @ + 1,
              !.totalFoodEaten       = @ + 1,
              !.remainingFoodInLevel = @ - 1]

\* The value incrementFoodEaten() of utils/ScoreTracker.ts returns.
ScoreTrackerTs_incrementFoodEatenResult(t) ==
    ScoreTrackerTs_incrementFoodEaten(t).remainingFoodInLevel = 0
        /\ ScoreTrackerTs_incrementFoodEaten(t).currentLevel < getLevelCount

ScoreTrackerTs_advanceToNextLevel(t) ==
    IF t.currentLevel < getLevelCount
    THEN [t EXCEPT !.currentLevel         = @ + 1,
                   !.remainingFoodInLevel = requiredFood(t.currentLevel + 1)]
    ELSE t

ScoreTrackerTs_setScore(t, score) ==
    [t EXCEPT !.totalFoodEaten       = score,
              !.foodEatenCount       = 0,
              !.remainingFoodInLevel = requiredFood(t.currentLevel)]

ScoreTrackerTs_reset(t, selectedLevel) ==
    [t EXCEPT !.currentLevel         = selectedLevel,
              !.remainingFoodInLevel = requiredFood(selectedLevel),
              !.foodEatenCount       = 0,
              !.totalFoodEaten       = IF selectedLevel = 1 THEN 0 ELSE @]

\* The largest score a game from level 1 can reach before the last level is
\* cleared; the client stops feeding the trackers there.
MaxTotal == getMinimumScoreForLevel(LevelCount) + requiredFood(LevelCount)

GameIdle ==
    UNCHANGED <<gameState, obstacles, levelSpeed, scoreTracker, isReplayMode,
                hasCompletedPlaythrough, currentSessionHighScore, ticks, animationFrame>>

TrackerInit ==
    /\ gameState = initialState
    /\ obstacles = generateObstacles(1)
    /\ levelSpeed = getSpeed(1)
    /\ scoreTracker = NewScoreTracker
    /\ isReplayMode = FALSE
    /\ hasCompletedPlaythrough = FALSE
    /\ currentSessionHighScore = 0
    /\ ticks = 0
    /\ animationFrame = NoFrame
    /\ call = [fn |-> "constructor", arg |-> 0,
               tracker |-> NewScoreTracker, trackerTs |-> ScoreTrackerTs_new]

TrackerSetLevel(level) ==
    /\ LevelFound(level)
    /\ call' = [fn |-> "setLevel", arg |-> level,
                tracker   |-> setLevel(call.tracker, level),
                trackerTs |-> ScoreTrackerTs_setLevel(call.trackerTs, level)]
    /\ GameIdle

TrackerIncrementFoodEaten ==
    /\ call.tracker.totalFoodEaten < MaxTotal
    /\ call.trackerTs.totalFoodEaten < MaxTotal
    /\ call' = [fn |-> "incrementFoodEaten", arg |-> 0,
                tracker   |-> incrementFoodEaten(call.tracker),
                trackerTs |-> ScoreTrackerTs_incrementFoodEaten(call.trackerTs),
                result    |-> incrementFoodEatenResult(call.tracker),
                resultTs  |-> ScoreTrackerTs_incrementFoodEatenResult(call.trackerTs)]
    /\ GameIdle

TrackerAdvanceToNextLevel ==
    /\ call' = [fn |-> "advanceToNextLevel", arg |-> 0,
                tracker   |-> advanceToNextLevel(call.tracker),
                trackerTs |-> ScoreTrackerTs_advanceToNextLevel(call.trackerTs)]
    /\ GameIdle

TrackerSetScore(score) ==
    /\ call' = [fn |-> "setScore", arg |-> score,
                tracker   |-> setScore(call.tracker, score),
                trackerTs |-> ScoreTrackerTs_setScore(call.trackerTs, score)]
    /\ GameIdle

TrackerReset(selectedLevel) ==
    /\ LevelFound(selectedLevel)
    /\ call' = [fn |-> "reset", arg |-> selectedLevel,
                tracker   |-> reset(call.tracker, selectedLevel),
                trackerTs |-> ScoreTrackerTs_reset(call.trackerTs, selectedLevel)]
    /\ GameIdle

TrackerNext ==
    \/ \E level \in LevelIds : TrackerSetLevel(level)
    \/ TrackerIncrementFoodEaten
    \/ TrackerAdvanceToNextLevel
    \/ \E score \in 0..MaxTotal : TrackerSetScore(score)
    \/ \E selectedLevel \in LevelIds : TrackerReset(selectedLevel)

TrackerSpec == TrackerInit /\ [][TrackerNext]_vars

(***************************************************************************)
(* setLevel and reset with any id, an id outside the catalog included.     *)
(* Both methods assign currentLevel first and look the level up second;    *)
(* getLevelById throws for an unknown id, and the method ends there.       *)
(* One call is applied to a tracker the game can hold: a tracker set to a  *)
(* catalog level, with or without one food of the level eaten.             *)
(***************************************************************************)
\* setLevel(level) of gameUtils.ts.
setLevelCall(t, level) ==
    IF LevelFound(level)
    THEN [thrown |-> FALSE, tracker |-> setLevel(t, level)]
    ELSE [thrown |-> TRUE,  tracker |-> [t EXCEPT !.currentLevel = level]]

\* reset(selectedLevel) of gameUtils.ts.
resetCall(t, selectedLevel) ==
    IF LevelFound(selectedLevel)
    THEN [thrown |-> FALSE, tracker |-> reset(t, selectedLevel)]
    ELSE [thrown |-> TRUE,  tracker |-> [t EXCEPT !.currentLevel = selectedLevel]]

\* setLevel(level) of utils/ScoreTracker.ts.
ScoreTrackerTs_setLevelCall(t, level) ==
    IF LevelFound(level)
    THEN [thrown |-> FALSE, tracker |-> ScoreTrackerTs_setLevel(t, level)]
    ELSE [thrown |-> TRUE,  tracker |-> [t EXCEPT !.currentLevel = level]]

\* reset(selectedLevel) of utils/ScoreTracker.ts.
ScoreTrackerTs_resetCall(t, selectedLevel) ==
    IF LevelFound(selectedLevel)
    THEN [thrown |-> FALSE, tracker |-> ScoreTrackerTs_reset(t, selectedLevel)]
    ELSE [thrown |-> TRUE,  tracker |-> [t EXCEPT !.currentLevel = selectedLevel]]

NotFoundInit ==
    /\ gameState = initialState
    /\ obstacles = generateObstacles(1)
    /\ levelSpeed = getSpeed(1)
    /\ scoreTracker = NewScoreTracker
    /\ isReplayMode = FALSE
    /\ hasCompletedPlaythrough = FALSE
    /\ currentSessionHighScore = 0
    /\ ticks = 0
    /\ animationFrame = NoFrame
    /\ \E current \in LevelIds, eaten \in BOOLEAN, id \in (-MaxLookupId)..MaxLookupId :
          call = [fn        |-> "arguments",
                  arg       |-> id,
                  thrown    |-> FALSE,
                  tracker   |-> IF eaten
                                THEN incrementFoodEaten(setLevel(NewScoreTracker, current))
                                ELSE setLevel(NewScoreTracker, current),
                  trackerTs |-> IF eaten
                                THEN ScoreTrackerTs_incrementFoodEaten(
                                         ScoreTrackerTs_setLevel(ScoreTrackerTs_new, current))
                                ELSE ScoreTrackerTs_setLevel(ScoreTrackerTs_new, current)]

NotFoundSetLevel ==
    /\ call.fn = "arguments"
    /\ call' = [fn        |-> "setLevel",
                arg       |-> call.arg,
                thrown    |-> setLevelCall(call.tracker, call.arg).thrown,
                tracker   |-> setLevelCall(call.tracker, call.arg).tracker,
                trackerTs |-> ScoreTrackerTs_setLevelCall(call.trackerTs, call.arg).tracker]
    /\ GameIdle

NotFoundReset ==
    /\ call.fn = "arguments"
    /\ call' = [fn        |-> "reset",
                arg       |-> call.arg,
                thrown    |-> resetCall(call.tracker, call.arg).thrown,
                tracker   |-> resetCall(call.tracker, call.arg).tracker,
                trackerTs |-> ScoreTrackerTs_resetCall(call.trackerTs, call.arg).tracker]
    /\ GameIdle

NotFoundNext ==
    \/ NotFoundSetLevel
    \/ NotFoundReset

NotFoundSpec == NotFoundInit /\ [][NotFoundNext]_vars

(***************************************************************************)
(* Food placement as a library function: one call of getRandomPosition on  *)
(* a grid of call.w columns and call.h rows, for every obstacle set on the *)
(* grid and every snake of up to two adjacent cells; both versions of the  *)
(* function are applied to the same arguments.                             *)
(***************************************************************************)
Adjacent(c, d) ==
    \/ c.x = d.x /\ (c.y - d.y) \in {-1, 1}
    \/ c.y = d.y /\ (c.x - d.x) \in {-1, 1}

PlaceSnakes(w, h) ==
    {<<>>} \cup {<<c>> : c \in Grid(w, h)}
           \cup {p \in Grid(w, h) \X Grid(w, h) : Adjacent(p[1], p[2])}

PlaceInit ==
    /\ gameState = initialState
    /\ obstacles = generateObstacles(1)
    /\ levelSpeed = getSpeed(1)
    /\ scoreTracker = NewScoreTracker
    /\ isReplayMode = FALSE
    /\ hasCompletedPlaythrough = FALSE
    /\ currentSessionHighScore = 0
    /\ ticks = 0
    /\ animationFrame = NoFrame
    /\ \E w \in 1..PlaceMaxWidth, h \in 1..PlaceMaxHeight :
          \E obs \in SUBSET Grid(w, h), s \in PlaceSnakes(w, h) :
              call = [fn |-> "arguments", w |-> w, h |-> h,
                      obstacles |-> obs, snake |-> s, result |-> Cell(-1, -1)]

\* getRandomPosition(obstacles, snake) of utils/gameUtils.ts returns.
PlaceGameUtils ==
    /\ call.fn = "arguments"
    /\ \E pos \in getRandomPositionOn(call.w, call.h, call.obstacles, call.snake) :
           call' = [call EXCEPT !.fn = "getRandomPosition", !.result = pos]
    /\ GameIdle

\* The earlier getRandomPosition(obstacles, snake) returns.
PlacePart002 ==
    /\ call.fn = "arguments"
    /\ \E pos \in getRandomPositionPart002(call.w, call.h, call.obstacles, call.snake) :
           call' = [call EXCEPT !.fn = "getRandomPositionPart002", !.result = pos]
    /\ GameIdle

PlaceNext == PlaceGameUtils \/ PlacePart002

PlaceSpec == PlaceInit /\ [][PlaceNext]_vars

(***************************************************************************)
(* The level catalog as a library: getLevelById(id) on the list of levels  *)
(* of data/levels.ts (10 levels) and on the longer list of the other       *)
(* version of the file (15 levels).                                        *)
(***************************************************************************)
levels ==
    [i \in 1..10 |-> [id |-> i, requiredFood |-> RequiredFoodTable[i],
                      speed |-> BASE_SPEED - 10 * i]]

levelsPart001 ==
    [i \in 1..15 |-> [id |-> i, requiredFood |-> i + 2, speed |-> BASE_SPEED - 10 * i]]

\* The level cards of LevelSelectionScreen: Array.from({ length: 15 }, (_, i) => i + 1)
levelNumbers == 1..15

\* levels.find(level => level.id === id), or the thrown Error.
getLevelById(catalog, id) ==
    IF \E i \in 1..Len(catalog) : catalog[i].id = id
    THEN [found |-> TRUE,
          level |-> catalog[CHOOSE i \in 1..Len(catalog) :
                                /\ catalog[i].id = id
                                /\ \A j \in 1..(i - 1) : catalog[j].id # id]]
    ELSE [found |-> FALSE, error |-> "Level not found", id |-> id]

CatalogInit ==
    /\ gameState = initialState
    /\ obstacles = generateObstacles(1)
    /\ levelSpeed = getSpeed(1)
    /\ scoreTracker = NewScoreTracker
    /\ isReplayMode = FALSE
    /\ hasCompletedPlaythrough = FALSE
    /\ currentSessionHighScore = 0
    /\ ticks = 0
    /\ animationFrame = NoFrame
    /\ \E catalog \in {levels, levelsPart001}, id \in (-MaxLookupId)..MaxLookupId :
          call = [fn |-> "arguments", catalog |-> catalog, id |-> id,
                  result |-> [found |-> FALSE]]

CatalogGetLevelById ==
    /\ call.fn = "arguments"
    /\ call' = [call EXCEPT !.fn = "getLevelById",
                            !.result = getLevelById(call.catalog, call.id)]
    /\ GameIdle

CatalogNext == CatalogGetLevelById

CatalogSpec == CatalogInit /\ [][CatalogNext]_vars

(***************************************************************************)
(* The obstacle generators as a library: generateObstacles() of every      *)
(* level and addBlockAtPosition on a grid of call.w columns and call.h     *)
(* rows (the window decides the grid, constants.ts:4-9).                   *)
(***************************************************************************)
ObstacleInit ==
    /\ gameState = initialState
    /\ obstacles = generateObstacles(1)
    /\ levelSpeed = getSpeed(1)
    /\ scoreTracker = NewScoreTracker
    /\ isReplayMode = FALSE
    /\ hasCompletedPlaythrough = FALSE
    /\ currentSessionHighScore = 0
    /\ ticks = 0
    /\ animationFrame = NoFrame
    /\ \E w \in GRID_SIZE..ObstMaxWidth, h \in 1..ObstMaxHeight :
          call = [fn |-> "arguments", w |-> w, h |-> h, id |-> 0,
                  startX |-> 0, startY |-> 0, result |-> {}]

\* getLevelById(id).generateObstacles() returns.
ObstacleGenerate(id) ==
    /\ call' = [fn |-> "generateObstacles", w |-> call.w, h |-> call.h, id |-> id,
                startX |-> 0, startY |-> 0,
                result |-> generateObstaclesOn(id, call.w, call.h)]
    /\ GameIdle

\* addBlockAtPosition([], startX, startY) returns; result is the array it filled.
ObstacleAddBlock(startX, startY) ==
    /\ call' = [fn |-> "addBlockAtPosition", w |-> call.w, h |-> call.h, id |-> 0,
                startX |-> startX, startY |-> startY,
                result |-> addBlockAtPositionOn(call.w, call.h, startX, startY)]
    /\ GameIdle

ObstacleNext ==
    \/ \E id \in levelNumbers : ObstacleGenerate(id)
    \/ \E startX \in (-2)..(call.w + 1), startY \in (-2)..(call.h + 1) :
           ObstacleAddBlock(startX, startY)

ObstacleSpec == ObstacleInit /\ [][ObstacleNext]_vars

(***************************************************************************)
(* The scheduling of the game loop: the frames requested with              *)
(* requestAnimationFrame, the ref animationFrameId, the game-loop effect   *)
(* and the timers of resetGame, handleLevelComplete and startLevel, each   *)
(* callback one step, in every order.  The board is abstracted to the      *)
(* fields of the render the scheduling reads; the outcome of a tick (plain *)
(* move, collision, level complete) is drawn freely.  A callback that sets *)
(* state is followed by one render; the effect of a render whose           *)
(* dependencies changed runs as a step of its own, at the latest before    *)
(* the next render.                                                        *)
(***************************************************************************)
\* The fields of a render the scheduling reads.
LoopView(rules, selection, over, complete, level, speed, lives, replay) ==
    [showRules |-> rules, showLevelSelection |-> selection, gameOver |-> over,
     levelComplete |-> complete, level |-> level, levelSpeed |-> speed,
     lives |-> lives, isReplayMode |-> replay]

\* The render of a level that has just been (re)started.
LoopRunningView(level, replay) ==
    LoopView(FALSE, FALSE, FALSE, FALSE, level, getSpeed(level), InitialLives, replay)

\* The render of the level-selection screen: initialState with
\* showLevelSelection, the speed left as it is.
LoopSelectionView(v) ==
    LoopView(FALSE, TRUE, FALSE, FALSE, 1, v.levelSpeed, InitialLives, TRUE)

\* cancelAnimationFrame that cancels nothing.
cancelAnimationFrameIgnored(c) == c

\* if (animationFrameId.current) { cancelAnimationFrame(...); ... = null }
cancelAnimationFrame(c) ==
    IF c.ref # 0
    THEN [c EXCEPT !.frames = {f \in @ : f.id # c.ref}, !.ref = 0]
    ELSE c

\* animationFrameId.current = requestAnimationFrame(gameLoop), gameLoop being
\* the function of a render whose gameState is gs.
requestAnimationFrame(c, gs) ==
    LET id == CHOOSE i \in 1..MaxFrames :
                  /\ \A f \in c.frames : f.id # i
                  /\ \A j \in 1..(i - 1) : \E f \in c.frames : f.id = j
    IN  [c EXCEPT !.frames = @ \cup {[id |-> id, gameOver |-> gs.gameOver,
                                     levelComplete |-> gs.levelComplete]},
                  !.ref = id]

\* setTimeout(callback, delay) in a handler of a render whose gameState is gs.
setTimeout(c, kind, levelId, gs) ==
    [c EXCEPT !.timers = @ \cup {[kind |-> kind, level |-> levelId,
                                  gameOver |-> gs.gameOver,
                                  levelComplete |-> gs.levelComplete]}]

\* The game-loop effect (cleanup of the previous run, then the body).
LoopRunEffect(c) ==
    LET stopped == cancelAnimationFrame(c)
        started == IF c.view.showRules \/ c.view.gameOver \/ c.view.levelComplete
                   THEN stopped
                   ELSE requestAnimationFrame(stopped, c.view)
    IN  [started EXCEPT !.effect = FALSE]

\* A pending effect runs before the next render.
LoopFlush(c) == IF c.effect THEN LoopRunEffect(c) ELSE c

\* The render that commits the view v.
LoopRender(c, v) ==
    [c EXCEPT !.view = v,
              !.effect = (LoopDeps(v, v.levelSpeed) # LoopDeps(c.view, c.view.levelSpeed))]

LoopInit ==
    /\ gameState = initialState
    /\ obstacles = generateObstacles(1)
    /\ levelSpeed = getSpeed(1)
    /\ scoreTracker = NewScoreTracker
    /\ isReplayMode = FALSE
    /\ hasCompletedPlaythrough = FALSE
    /\ currentSessionHighScore = 0
    /\ ticks = 0
    /\ animationFrame = NoFrame
    /\ call = [fn |-> "mount", ref |-> 0, frames |-> {}, timers |-> {},
               effect |-> FALSE,
               view |-> LoopView(TRUE, FALSE, FALSE, FALSE, 1, getSpeed(1),
                                 InitialLives, FALSE)]

\* The model has a frame id, a timer slot, left to hand out.
LoopFrameAvailable == Cardinality(call.frames) < MaxFrames

LoopTimerAvailable == Cardinality(call.timers) < MaxTimers

\* The outcomes of the moveSnake updater on the view.
LoopTickOutcomes == {"move", "collision", "levelComplete"}

\* The view after the moveSnake updater.
LoopMoveSnake(v, outcome) ==
    IF v.gameOver THEN v
    ELSE CASE outcome = "collision" ->
                  [v EXCEPT !.gameOver = TRUE,
                            !.lives = IF v.isReplayMode THEN @ ELSE @ - 1]
           [] outcome = "levelComplete" ->
                  [v EXCEPT !.levelComplete = TRUE, !.lives = InitialLives]
           [] OTHER -> v

\* The side effect of the updater on the ref: the collision branch cancels
\* the requested frame.
LoopMoveSnakeCancels(c, outcome) ==
    IF ~c.view.gameOver /\ outcome = "collision" THEN cancelAnimationFrame(c) ELSE c

\* The end of gameLoop, with the gameState of its own render.
LoopContinue(c, f) ==
    IF ~f.gameOver /\ ~f.levelComplete
    THEN requestAnimationFrame(c, f)
    ELSE cancelAnimationFrame(c)

\* The frame f fires: gameLoop of the render that requested it.  elapsed says
\* whether more than levelSpeed has passed; eager says whether the updater
\* runs inside setGameState or in the render that follows.
gameLoop(f, elapsed, outcome, eager) ==
    /\ f \in call.frames
    /\ LoopFrameAvailable
    /\ outcome = "levelComplete" => call.view.level < getLevelCount
    /\ LET fired == [call EXCEPT !.frames = @ \ {f}, !.fn = "gameLoop"]
       IN  call' =
             IF f.gameOver THEN cancelAnimationFrame(fired)
             ELSE IF ~elapsed THEN LoopContinue(fired, f)
             ELSE IF call.view.gameOver THEN LoopFlush(LoopContinue(fired, f))
             ELSE IF eager
                  THEN LoopRender(LoopFlush(LoopContinue(LoopMoveSnakeCancels(fired, outcome), f)),
                                  LoopMoveSnake(call.view, outcome))
                  ELSE LoopRender(LoopMoveSnakeCancels(LoopFlush(LoopContinue(fired, f)), outcome),
                                  LoopMoveSnake(call.view, outcome))
    /\ GameIdle

\* The effect of the last render runs.
LoopEffect ==
    /\ call.effect
    /\ LoopFrameAvailable
    /\ call' = [LoopRunEffect(call) EXCEPT !.fn = "useEffect"]
    /\ GameIdle

\* resetGame(selectedLevel) as called by the start screen and by the practice
\* retry screen.
LoopResetGame(selectedLevel, replay) ==
    /\ LoopTimerAvailable
    /\ call' = [LoopRender(LoopFlush(setTimeout(cancelAnimationFrame(call), "resetGame",
                                             selectedLevel, call.view)),
                        LoopRunningView(selectedLevel, replay))
             EXCEPT !.fn = "resetGame"]

LoopStartGame ==
    /\ call.view.showRules
    /\ LoopFrameAvailable
    /\ LoopResetGame(1, FALSE)
    /\ GameIdle

LoopGameScreen == ~call.view.showRules /\ ~call.view.showLevelSelection

LoopPracticeRetry ==
    /\ LoopGameScreen /\ call.view.gameOver /\ call.view.isReplayMode
    /\ LoopFrameAvailable
    /\ LoopResetGame(call.view.level, TRUE)
    /\ GameIdle

\* RetryScreen onPress.
LoopRetryLevel ==
    /\ LoopGameScreen /\ call.view.gameOver /\ ~call.view.isReplayMode
    /\ call.view.lives > 0
    /\ LoopFrameAvailable
    /\ call' = [LoopRender(LoopFlush(IF call.ref = 0
                                     THEN requestAnimationFrame(call, call.view)
                                     ELSE call),
                           [call.view EXCEPT !.gameOver = FALSE])
                EXCEPT !.fn = "retryLevel"]
    /\ GameIdle

LoopHandleLevelComplete ==
    /\ LoopGameScreen /\ call.view.levelComplete
    /\ call.view.level + 1 <= getLevelCount
    /\ LoopFrameAvailable /\ LoopTimerAvailable
    /\ call' = [LoopRender(LoopFlush(setTimeout(cancelAnimationFrame(call),
                                                "handleLevelComplete",
                                                call.view.level + 1, call.view)),
                           LoopRunningView(call.view.level + 1, call.view.isReplayMode))
                EXCEPT !.fn = "handleLevelComplete"]
    /\ GameIdle

\* GameOverScreen "Home": no frame is cancelled.
LoopGameOverHome ==
    /\ LoopGameScreen /\ call.view.gameOver /\ ~call.view.isReplayMode
    /\ call.view.lives <= 0
    /\ LoopFrameAvailable
    /\ call' = [LoopRender(LoopFlush(call), LoopSelectionView(call.view))
                EXCEPT !.fn = "gameOverHome"]
    /\ GameIdle

LoopReturnToLevelSelection ==
    /\ LoopGameScreen /\ call.view.isReplayMode /\ ~call.view.levelComplete
    /\ LoopFrameAvailable
    /\ call' = [LoopRender(LoopFlush(cancelAnimationFrame(call)),
                           LoopSelectionView(call.view))
                EXCEPT !.fn = "returnToLevelSelection"]
    /\ GameIdle

\* LevelSelectionScreen.startLevel(levelId) up to its first timer.
LoopStartLevel(levelId) ==
    /\ call.view.showLevelSelection
    /\ LoopFrameAvailable /\ LoopTimerAvailable
    /\ call' = [LoopRender(LoopFlush(setTimeout(cancelAnimationFrame(call), "startLevel",
                                                levelId, call.view)),
                           [call.view EXCEPT !.isReplayMode = TRUE])
                EXCEPT !.fn = "startLevel"]
    /\ GameIdle

\* A timer fires.
LoopTimeout(t) ==
    /\ t \in call.timers
    /\ LoopFrameAvailable
    /\ LET fired == [call EXCEPT !.timers = @ \ {t}, !.fn = t.kind]
       IN  call' =
             CASE t.kind \in {"resetGame", "handleLevelComplete"} ->
                      IF fired.ref = 0 THEN requestAnimationFrame(fired, t) ELSE fired
               [] t.kind = "startLevel" ->
                      LoopRender(LoopFlush(setTimeout(fired, "startLevelLoop", t.level, t)),
                                 LoopRunningView(t.level, TRUE))
               [] OTHER ->
                      requestAnimationFrame(cancelAnimationFrame(fired), t)
    /\ GameIdle

LoopNext ==
    \/ \E f \in call.frames, elapsed \in BOOLEAN, outcome \in LoopTickOutcomes,
         eager \in BOOLEAN : gameLoop(f, elapsed, outcome, eager)
    \/ LoopEffect
    \/ LoopStartGame
    \/ LoopPracticeRetry
    \/ LoopRetryLevel
    \/ LoopHandleLevelComplete
    \/ LoopGameOverHome
    \/ LoopReturnToLevelSelection
    \/ \E levelId \in LevelIds : LoopStartLevel(levelId)
    \/ \E t \in call.timers : LoopTimeout(t)

LoopSpec == LoopInit /\ [][LoopNext]_vars

(***************************************************************************)
(* A frame between a commit and its effect.  The effect that stops the     *)
(* loop is passive: it runs some time after the render that set gameOver   *)
(* or levelComplete is committed.  The gameLoop of the tick that set the   *)
(* flag has already requested the next frame from its own render, where    *)
(* both flags were false, so that frame is pending until the effect        *)
(* cancels it.  If it fires first, and a full levelSpeed after the tick,   *)
(* its gameLoop calls moveSnake once more on the committed state.          *)
(* This specification is the normal game with that frame made explicit:    *)
(* call holds the frame left pending by the last tick.                     *)
(***************************************************************************)
\* The frame gameLoop requested for itself after a tick that ended the run.
PendingFrame(frame) == [fn |-> "requestAnimationFrame", frame |-> frame]

\* moveSnake from gameLoop, as in the game; the frame requested at the end of
\* gameLoop stays pending when the tick has set gameOver or levelComplete.
RaceMoveSnake ==
    /\ animationFrame.scheduled
    /\ moveSnakeOf(animationFrame)
    /\ animationFrame' = Committed(animationFrame)
    /\ call' = IF gameState'.gameOver \/ gameState'.levelComplete
               THEN PendingFrame(animationFrame)
               ELSE NoCall

\* The pending frame fires before the effect has cancelled it: its gameLoop
\* sees gameOver and levelComplete false in its render and calls moveSnake.
\* The effect runs before the render of that update, and cancels what this
\* gameLoop requested.
RaceLateFrame ==
    /\ call.fn = "requestAnimationFrame"
    /\ ~animationFrame.scheduled
    /\ gameState.gameOver \/ gameState.levelComplete
    /\ moveSnakeOf(call.frame)
    /\ animationFrame' = NoFrame
    /\ call' = [fn |-> "gameLoop", frame |-> call.frame]

\* RetryScreen and GameOverScreen are rendered under LevelCompleteScreen.
RaceRetryLevel == ~gameState.levelComplete /\ retryLevel

RaceGameOverHome == ~gameState.levelComplete /\ gameOverHome

RaceNext ==
    \/ startGame
    \/ \E d \in DirectionNames : handleGesture(d)
    \/ RaceMoveSnake
    \/ RaceLateFrame
    \/ RaceRetryLevel
    \/ handleLevelComplete
    \/ RaceGameOverHome

RaceSpec == Init /\ [][RaceNext]_vars

(***************************************************************************)
(* Vocabulary of the properties                                            *)
(***************************************************************************)
\* The engine is Running: the board is on screen and no overlay is up.
Running == GameScreenShown /\ ~gameState.gameOver /\ ~gameState.levelComplete

\* LifeLost and Terminated, as the render distinguishes them.
LifeLost == RetryScreenShown

Terminated == GameOverScreenShown

\* This step is a tick (an invocation of moveSnake).
TickTaken == ticks' = ticks + 1

Wrap(v, n) == IF v < 0 THEN v + n ELSE IF v >= n THEN v - n ELSE v

\* The candidate head of the next tick, wrapped onto the torus.
CandidateHead ==
    Cell(Wrap(gameState.snake[1].x + DIRECTIONS(gameState.direction).x, GRID_WIDTH),
         Wrap(gameState.snake[1].y + DIRECTIONS(gameState.direction).y, GRID_HEIGHT))

CandidateOnBodyExceptTail ==
    \E i \in 1..(Len(gameState.snake) - 1) : gameState.snake[i] = CandidateHead

\* The candidate head is on an obstacle of the level (the list in the state,
\* the one drawn) or on the body.
CandidateCollides == CandidateHead \in obstacles \/ CandidateOnBodyExceptTail

\* The collision test of the next tick: moveSnake tests the obstacle list of
\* the render its loop was requested in.
TickCollides == CandidateHead \in animationFrame.obstacles \/ CandidateOnBodyExceptTail

RECURSIVE SumRequiredFood(_)
\* requiredFood(1) + ... + requiredFood(k)
SumRequiredFood(k) == IF k <= 0 THEN 0 ELSE SumRequiredFood(k - 1) + RequiredFoodTable[k]

(***************************************************************************)
(* Properties                                                              *)
(***************************************************************************)

\* C1 (as stated): every Running tick whose candidate head is an obstacle cell
\* or a body cell other than the tail sets gameOver and decrements lives by 1.
C1_CollisionAlwaysDecrementsLives ==
    [][(Running /\ TickTaken /\ CandidateCollides)
          => (gameState'.gameOver /\ gameState'.lives = gameState.lives - 1)]_vars

C3_FoodTickGrowsAndRespawns ==
    [][(Running /\ TickTaken /\ CandidateHead = gameState.food
            /\ ~gameState'.levelComplete)
          => (/\ gameState'.snake = <<CandidateHead>> \o gameState.snake
              /\ Len(gameState'.snake) = Len(gameState.snake) + 1
              /\ Running'
              /\ (GridCells \ (obstacles \cup SnakeCells(gameState'.snake)) # {}
                    => /\ gameState'.food \in GridCells
                       /\ gameState'.food \notin obstacles
                       /\ gameState'.food \notin SnakeCells(gameState'.snake)))]_vars

ExactOpposite(a, b) ==
    <<a, b>> \in {<<"LEFT", "RIGHT">>, <<"RIGHT", "LEFT">>, <<"UP", "DOWN">>, <<"DOWN", "UP">>}

\* C5: while Running, submitting the exact opposite of the current direction
\* can change nothing (direction and the whole state stay, so the next tick
\* still moves along the old direction); submitting any other direction is
\* accepted and replaces the current direction, changing nothing else.
C5_OppositeDirectionRejected ==
    Running =>
        \A d \in DirectionNames :
            IF ExactOpposite(d, gameState.direction)
            THEN ~ENABLED (handleGesture(d) /\ vars' # vars)
            ELSE /\ ENABLED (handleGesture(d) /\ gameState'.direction = d)
                 /\ ~ENABLED (handleGesture(d)
                                /\ <<gameState', ticks'>>
                                       # <<[gameState EXCEPT !.direction = d], ticks>>)

\* A turn has been accepted and waits for the next tick.
C5_Witness ==
    /\ Running
    /\ gameState.snake = initialSnake
    /\ gameState.direction = "UP"

\* C6 (as stated): no Running tick moves the head into the neck (the second
\* body cell), i.e. the direction a tick applies is never the exact opposite of
\* the direction the previous tick applied.
C6_NeverReversesIntoNeck ==
    [][(Running /\ TickTaken) => CandidateHead # gameState.snake[2]]_vars

\* This step is a tick on which the tracker counted a food item.
FoodConsumed ==
    TickTaken /\ scoreTracker'.foodEatenCount = scoreTracker.foodEatenCount + 1

\* C7: on a non-final level L the level-complete signal fires on the
\* requiredFood(L)-th food consumption of the attempt and on no earlier one;
\* at that point remaining food is 0, the cumulative score is the baseline of
\* the level plus requiredFood(L) (3 on level 1) and lives is 3.
C7_LevelCompleteOnLastRequiredFood ==
    [][(Running /\ FoodConsumed /\ gameState.level < LevelCount)
          => (/\ gameState'.levelComplete
                   <=> scoreTracker'.foodEatenCount = RequiredFoodTable[gameState.level]
              /\ gameState'.levelComplete
                   => /\ gameState'.remainingFood = 0
                      /\ scoreTracker'.remainingFoodInLevel = 0
                      /\ scoreTracker'.totalFoodEaten
                             = scoreTracker.baseLevelScore
                                   + RequiredFoodTable[gameState.level]
                      /\ gameState'.score
                             = SumRequiredFood(gameState.level - 1)
                                   + RequiredFoodTable[gameState.level]
                      /\ (gameState.level = 1 => gameState'.score = 3)
                      /\ gameState'.lives = 3)]_vars

\* Level 1 has just been completed on the third food of a normal game.
C7_Witness ==
    /\ LevelCompleteScreenShown /\ ~isReplayMode
    /\ gameState.level = 1
    /\ scoreTracker.foodEatenCount = 3
    /\ gameState.score = 3
    /\ gameState.lives = 3

\* C8: in a game started at level 1, whenever the required food of level k has
\* just been collected (remaining food 0 on level k), the cumulative score is
\* requiredFood(1) + ... + requiredFood(k), for every level k of the catalog.
C8_ScoreIsSumOfRequiredFood ==
    (GameScreenShown /\ ~isReplayMode /\ scoreTracker.remainingFoodInLevel = 0)
        => /\ scoreTracker.currentLevel = gameState.level
           /\ scoreTracker.totalFoodEaten = SumRequiredFood(gameState.level)
           /\ gameState.score = SumRequiredFood(gameState.level)

\* Levels 1 and 2 have been completed in order without losing a life.
C8_Witness ==
    /\ GameScreenShown /\ ~isReplayMode
    /\ gameState.level = 2
    /\ gameState.lives = 3
    /\ scoreTracker.remainingFoodInLevel = 0
    /\ gameState.score = 7

\* What C9 promises of a life loss: LifeLost on the same level, the score
\* (tracker and snapshot) back on the baseline of the level, remaining food
\* reset to the requirement of the level.
RevertsToBaseline ==
    /\ LifeLost'
    /\ gameState'.level = gameState.level
    /\ scoreTracker'.currentLevel = scoreTracker.currentLevel
    /\ gameState'.score = SumRequiredFood(gameState.level - 1)
    /\ scoreTracker'.totalFoodEaten = SumRequiredFood(gameState.level - 1)
    /\ scoreTracker'.currentAttemptScore = 0
    /\ scoreTracker'.remainingFoodInLevel = RequiredFoodTable[gameState.level]

C10_TerminatedOnThirdCollision ==
    [][/\ (Running /\ TickTaken /\ gameState'.gameOver /\ gameState'.lives <= 0)
            => /\ Terminated'
               /\ gameState.lives = 1
               /\ gameState'.lives = 0
               /\ gameState'.score
                      = SumRequiredFood(gameState.level - 1)
                            + scoreTracker.foodEatenCount
               /\ currentSessionHighScore' = gameState'.score
               /\ scoreTracker' = scoreTracker
       /\ (~Running /\ ~LifeLost /\ Running') => gameState'.lives = 3
       /\ (LifeLost /\ Running')
            => gameState'.lives = gameState.lives /\ gameState'.level = gameState.level
       /\ (Running /\ TickTaken)
            => gameState'.lives =
                   IF CandidateCollides /\ ~isReplayMode THEN gameState.lives - 1
                   ELSE IF gameState'.levelComplete THEN 3
                   ELSE gameState.lives
       /\ (Running /\ Running' /\ ~TickTaken) => gameState'.lives = gameState.lives
      ]_vars

\* The third collision of a level, after food was eaten in the attempt.
C10_Witness ==
    /\ Terminated
    /\ gameState.lives = 0
    /\ scoreTracker.currentAttemptScore >= 1
    /\ gameState.score = scoreTracker.baseLevelScore + scoreTracker.currentAttemptScore

\* C11 (as stated): the tick that consumes the last required food of the final
\* level (remaining food reaches 0 on level N) enters LevelComplete and leaves
\* Running.
C11_FinalLevelVictory ==
    [][(Running /\ FoodConsumed /\ gameState.level = LevelCount
            /\ scoreTracker'.remainingFoodInLevel = 0)
          => (gameState'.levelComplete /\ ~Running')]_vars

C13_AdvanceLevelLoadsNext ==
    [][(LevelCompleteScreenShown /\ gameState.level < LevelCount
            /\ ~gameState'.levelComplete)
          => (/\ gameState'.level = gameState.level + 1
              /\ scoreTracker'.currentLevel = gameState.level + 1
              /\ obstacles' = generateObstacles(gameState.level + 1)
              /\ levelSpeed' = BASE_SPEED - 10 * (gameState.level + 1)
              /\ gameState'.snake = <<Cell(2, 1), Cell(1, 1), Cell(0, 1)>>
              /\ gameState'.direction = "RIGHT"
              /\ gameState'.lives = 3
              /\ gameState'.remainingFood = RequiredFoodTable[gameState.level + 1]
              /\ scoreTracker'.remainingFoodInLevel = RequiredFoodTable[gameState.level + 1]
              /\ scoreTracker'.foodEatenCount = 0
              /\ scoreTracker'.currentAttemptScore = 0
              /\ gameState'.score = gameState.score
              /\ scoreTracker'.totalFoodEaten = scoreTracker.totalFoodEaten
              /\ gameState'.score = scoreTracker'.totalFoodEaten
              /\ scoreTracker'.baseLevelScore = scoreTracker.totalFoodEaten
              /\ gameState'.levelStartScore = gameState.score
              /\ gameState'.food \in GridCells
              /\ gameState'.food \notin obstacles'
              /\ gameState'.food \notin {Cell(2, 1), Cell(1, 1), Cell(0, 1)}
              /\ Running')]_vars

\* Level 2 has just been entered from the completion of level 1 in a normal
\* game: no tick yet, 3 points carried over as the new baseline.
C13_Witness ==
    /\ Running /\ ~isReplayMode
    /\ gameState.level = 2
    /\ ticks = 0
    /\ gameState.lives = 3
    /\ gameState.score = 3
    /\ scoreTracker.baseLevelScore = 3
    /\ gameState.remainingFood = 4
    /\ obstacles = generateObstacles(2)

\* What C14 promises of a tracker t after reset(levelId).
ResetPostcondition(t, levelId) ==
    /\ t.currentLevel = levelId
    /\ t.foodEatenCount = 0
    /\ t.remainingFoodInLevel = RequiredFoodTable[levelId]
    /\ (t.totalFoodEaten = 0 <=> levelId = 1)
    /\ t.totalFoodEaten = SumRequiredFood(levelId - 1)

\* C14 (as stated): after reset(levelId) the per-level counters of the tracker
\* are reset (food eaten 0, remaining food requiredFood(levelId), level
\* levelId) and the cumulative score is the sum of requiredFood over levels
\* 1..levelId-1 (0 if and only if levelId = 1), whatever it was before; this
\* for the tracker class of each of the two cited files.
C14_ResetToLevelRebaselines ==
    [][call'.fn = "reset"
          => (/\ ResetPostcondition(call'.tracker, call'.arg)
              /\ ResetPostcondition(call'.trackerTs, call'.arg))]_vars

\* C15 (as stated): in every reachable state the cumulative score is the sum
\* of requiredFood over the completed levels plus the food eaten in the
\* attempt in progress; it is never negative and never exceeds the sum of
\* requiredFood over levels 1..currentLevel.
C15_ScoreWithinLevelsReached ==
    /\ scoreTracker.totalFoodEaten
           = SumRequiredFood(scoreTracker.currentLevel - 1) + scoreTracker.foodEatenCount
    /\ scoreTracker.totalFoodEaten >= 0
    /\ scoreTracker.totalFoodEaten <= SumRequiredFood(scoreTracker.currentLevel)

\* This step is a return of one of the two versions of getRandomPosition.
PlaceReturns == call'.fn \in {"getRandomPosition", "getRandomPositionPart002"}

\* The free cells of the arguments of the call.
PlaceFree == Grid(call.w, call.h) \ (call.obstacles \cup SnakeCells(call.snake))

\* C16: for every obstacle set and snake body on the grid that leave at least
\* one cell free, food placement returns a cell of the grid that is in
\* neither the obstacle set nor the snake body; when exactly one cell is free,
\* every call returns exactly that cell.
C16_PlaceReturnsFreeCell ==
    [][(PlaceReturns /\ PlaceFree # {})
          => (/\ call'.result.x \in 0..(call.w - 1)
              /\ call'.result.y \in 0..(call.h - 1)
              /\ call'.result \notin call.obstacles
              /\ \A i \in 1..Len(call.snake) : call.snake[i] # call'.result
              /\ (Cardinality(PlaceFree) = 1 => PlaceFree = {call'.result}))]_vars

\* The current getRandomPosition has returned the only free cell of a 3x2
\* grid on which obstacles and a two-cell snake cover the other five.
C16_Witness ==
    /\ call.fn = "getRandomPosition"
    /\ call.w = 3 /\ call.h = 2
    /\ Len(call.snake) = 2
    /\ Cardinality(call.obstacles) = 3
    /\ Cardinality(PlaceFree) = 1
    /\ call.result \in PlaceFree

\* C17 (as stated): with zero free cells food placement returns, on every
\* call, one fixed cell that depends on the grid alone, and that cell lies
\* inside the grid (0 <= x < W, 0 <= y < H) for every grid size W, H >= 1.
C17_FallbackCellInsideGrid ==
    [][(PlaceReturns /\ PlaceFree = {})
          => (/\ call'.result =
                     IF call'.fn = "getRandomPosition" THEN Cell(1, 1)
                     ELSE Cell(call.w \div 2, call.h \div 2)
              /\ call'.result.x \in 0..(call.w - 1)
              /\ call'.result.y \in 0..(call.h - 1))]_vars

\* C18 (as stated): looking up an id outside 1..levelCount fails with the
\* explicit "not found" error and returns no level; looking up an id in
\* 1..levelCount returns the level with that id; and every id the
\* level-selection screen offers (1..15) is an id whose lookup succeeds.
C18_LookupAndOfferedLevels ==
    [][call'.fn = "getLevelById"
          => (/\ (call.id < 1 \/ call.id > Len(call.catalog))
                    => /\ ~call'.result.found
                       /\ call'.result.error = "Level not found"
                       /\ call'.result.id = call.id
              /\ call.id \in 1..Len(call.catalog)
                    => /\ call'.result.found
                       /\ call'.result.level.id = call.id
                       /\ call'.result.level = call.catalog[call.id]
              /\ call.id \in levelNumbers => call'.result.found)]_vars

\* C19 (as stated): in every reachable state at most one of gameOver
\* (LifeLost / Terminated) and levelComplete is true, and neither is true
\* while the menu or the level-selection screen is active (showRules or
\* showLevelSelection true).
C19_ExactlyOneRunState ==
    /\ ~(gameState.gameOver /\ gameState.levelComplete)
    /\ (gameState.showRules \/ gameState.showLevelSelection)
           => (~gameState.gameOver /\ ~gameState.levelComplete)

\* The candidate head is on a body cell that is not the tail cell.
CandidateOnOtherBodyCell ==
    \E i \in 1..(Len(gameState.snake) - 1) :
        /\ gameState.snake[i] = CandidateHead
        /\ gameState.snake[i] # gameState.snake[Len(gameState.snake)]

\* C20: a Running tick whose candidate head is the current tail cell (and no
\* other body cell, not the food cell, not in the obstacle list the tick
\* tests) is not a
\* self-collision: the snake advances into the vacated cell, its length and
\* lives are unchanged and the engine stays Running; a candidate head equal
\* to any other body cell is a self-collision and ends the attempt.
C20_TailCellIsNotACollision ==
    [][/\ (Running /\ TickTaken
              /\ CandidateHead = gameState.snake[Len(gameState.snake)]
              /\ ~CandidateOnOtherBodyCell
              /\ CandidateHead # gameState.food
              /\ CandidateHead \notin animationFrame.obstacles)
            => (/\ gameState'.snake = <<CandidateHead>>
                       \o SubSeq(gameState.snake, 1, Len(gameState.snake) - 1)
                /\ gameState'.snake[1] = gameState.snake[Len(gameState.snake)]
                /\ Len(gameState'.snake) = Len(gameState.snake)
                /\ gameState'.lives = gameState.lives
                /\ ~gameState'.gameOver
                /\ Running')
       /\ (Running /\ TickTaken /\ CandidateOnOtherBodyCell)
            => (gameState'.gameOver /\ ~Running')
      ]_vars

\* Level 1 on the three-row torus: the snake turned UP at the start and after
\* three ticks its head is back on (2,1), the cell its tail left on that tick.
C20_Witness ==
    /\ Running
    /\ ticks = 3
    /\ gameState.level = 1
    /\ gameState.lives = 3
    /\ gameState.direction = "UP"
    /\ gameState.snake = <<Cell(2, 1), Cell(2, 2), Cell(2, 0)>>

\* C21 (as stated): for every level id and every grid, every cell the obstacle
\* generator returns satisfies 0 <= x < W and 0 <= y < H; a 2x2 block request
\* whose anchor lies outside [0, W-1) x [0, H-1) contributes no cells, and an
\* accepted block contributes exactly the four cells (x,y), (x+1,y), (x,y+1),
\* (x+1,y+1).
C21_GeneratorBoundsSafe ==
    [][/\ call'.fn = "generateObstacles"
            => \A c \in call'.result :
                   c.x \in 0..(call'.w - 1) /\ c.y \in 0..(call'.h - 1)
       /\ call'.fn = "addBlockAtPosition"
            => call'.result =
                   IF /\ call'.startX \in 0..(call'.w - 2)
                      /\ call'.startY \in 0..(call'.h - 2)
                   THEN {Cell(call'.startX, call'.startY),
                         Cell(call'.startX + 1, call'.startY),
                         Cell(call'.startX, call'.startY + 1),
                         Cell(call'.startX + 1, call'.startY + 1)}
                   ELSE {}
      ]_vars

\* C22: the obstacle list is fixed for the duration of a level.  A tick (with
\* or without food, with or without a collision) and a retry after a lost
\* life leave the list unchanged, and so is the list the loop tests: a tick
\* that keeps the loop running keeps its list, and in a normal game the loop
\* always tests the list of the state, before the lost life and after the
\* retry.  A step that replaces the list installs the value of the generator
\* for the level it starts (advance, restart, level selection) or the empty
\* list of the level-selection screen; the generator is a function of the
\* level id and the grid.
C22_ObstaclesFixedWithinLevel ==
    /\ [][/\ (TickTaken \/ (LifeLost /\ ~gameState'.gameOver))
                => /\ obstacles' = obstacles
                   /\ (animationFrame.scheduled /\ animationFrame'.scheduled)
                          => animationFrame'.obstacles = animationFrame.obstacles
          /\ obstacles' # obstacles
                => \/ obstacles' = generateObstacles(gameState'.level)
                   \/ LevelSelectionShown' /\ obstacles' = {}
         ]_vars
    /\ []((animationFrame.scheduled /\ ~isReplayMode)
              => animationFrame.obstacles = obstacles)

\* Level 2 of a normal game after a lost life and a retry, one food eaten in
\* the new attempt: the blocks of level 2 are in place.
C22_Witness ==
    /\ Running /\ ~isReplayMode
    /\ gameState.level = 2
    /\ gameState.lives = 2
    /\ scoreTracker.foodEatenCount = 1
    /\ obstacles = generateObstacles(2)
    /\ obstacles # {}
    /\ animationFrame.obstacles = obstacles

\* C23: every incrementFoodEaten call, on the tracker class of each of the two
\* cited files and after any sequence of calls, decrements the remaining food
\* of the level by exactly 1 and increments the cumulative score by exactly 1
\* (the call takes no colour); it returns true if and only if the remaining
\* food is 0 after the call and the current level is not the last one.
C23_IncrementFoodEatenCountsOne ==
    [][call'.fn = "incrementFoodEaten"
          => (/\ call'.tracker.remainingFoodInLevel = call.tracker.remainingFoodInLevel - 1
              /\ call'.tracker.totalFoodEaten = call.tracker.totalFoodEaten + 1
              /\ call'.result <=> (/\ call'.tracker.remainingFoodInLevel = 0
                                   /\ call'.tracker.currentLevel < getLevelCount)
              /\ call'.trackerTs.remainingFoodInLevel = call.trackerTs.remainingFoodInLevel - 1
              /\ call'.trackerTs.totalFoodEaten = call.trackerTs.totalFoodEaten + 1
              /\ call'.resultTs <=> (/\ call'.trackerTs.remainingFoodInLevel = 0
                                     /\ call'.trackerTs.currentLevel < getLevelCount))]_vars

\* The call that eats the last required food of level 1 has returned true on
\* both trackers.
C23_Witness ==
    /\ call.fn = "incrementFoodEaten"
    /\ call.result /\ call.resultTs
    /\ call.tracker.currentLevel = 1
    /\ call.tracker.remainingFoodInLevel = 0
    /\ call.tracker.totalFoodEaten = requiredFood(1)
    /\ call.trackerTs.remainingFoodInLevel = 0

\* C24: advanceToNextLevel called when currentLevel is the last level changes
\* nothing (level, remaining food, food eaten, baseline and cumulative score
\* keep their values); called on an earlier level it increases currentLevel
\* by exactly 1.
C24_AdvanceOnLastLevelIsNoOp ==
    [][call'.fn = "advanceToNextLevel"
          => IF call.tracker.currentLevel < getLevelCount
             THEN call'.tracker.currentLevel = call.tracker.currentLevel + 1
             ELSE call'.tracker = call.tracker]_vars

\* advanceToNextLevel has returned on the last level with food of the attempt
\* still counted: the call was made on the last level and kept the counters.
C24_Witness ==
    /\ call.fn = "advanceToNextLevel"
    /\ call.tracker.currentLevel = getLevelCount
    /\ call.tracker.currentAttemptScore = 2
    /\ call.tracker.totalFoodEaten = call.tracker.baseLevelScore + 2

\* C25: ticks are serial.  In every order of the frame callbacks, the
\* game-loop effect, the timers of resetGame, handleLevelComplete and
\* startLevel and the retry handler, at most one animation frame is requested
\* at any time, and it is the one animationFrameId refers to, so that no two
\* gameLoop callbacks are pending for one frame signal.
C25_AtMostOneFramePending ==
    /\ Cardinality(call.frames) <= 1
    /\ \A f \in call.frames : f.id = call.ref

\* A colliding tick has just run in the eager order: gameOver is committed, the
\* frame requested at the end of gameLoop is pending, the effect that will
\* cancel it has not run yet and the timer of resetGame is still to fire.
C25_Witness ==
    /\ call.fn = "gameLoop"
    /\ call.view.gameOver
    /\ call.effect
    /\ Cardinality(call.frames) = 1
    /\ \E t \in call.timers : t.kind = "resetGame"

\* C26 (as stated): in every Running state the snake has at least 3 cells,
\* every cell of the snake is a cell of the grid, the cells are pairwise
\* distinct and none of them is an obstacle cell of the level.
C26_SnakeWellFormedWhileRunning ==
    Running =>
        /\ Len(gameState.snake) >= 3
        /\ \A i \in 1..Len(gameState.snake) : gameState.snake[i] \in GridCells
        /\ \A i, j \in 1..Len(gameState.snake) :
               i # j => gameState.snake[i] # gameState.snake[j]
        /\ \A i \in 1..Len(gameState.snake) : gameState.snake[i] \notin obstacles

C28_TickWhileLevelCompleteIsNoOp ==
    [][/\ (TickTaken /\ gameState.levelComplete)
             => UNCHANGED <<gameState, scoreTracker>>
       /\ (LevelCompleteScreenShown /\ ~LevelCompleteScreenShown')
             => \/ gameState'.level = gameState.level + 1 /\ Running'
                \/ LevelSelectionShown'
      ]_vars

\* C29 (as stated): while the start screen or the level-selection screen is
\* shown, no frame of the game loop is requested, and no tick changes the
\* snake, the lives or the score.
C29_NoLoopBehindMenu ==
    /\ []((StartScreenShown \/ LevelSelectionShown) => ~animationFrame.scheduled)
    /\ [][(StartScreenShown \/ LevelSelectionShown)
             => (TickTaken
                    => /\ gameState'.snake = gameState.snake
                       /\ gameState'.lives = gameState.lives
                       /\ gameState'.score = gameState.score)
         ]_vars

\* C30 (as stated): in every reachable state the tracker's remaining food of
\* the level lies between 0 and the level's required food, and the food eaten
\* on the level plus the remaining food is the required food, on every level
\* including the last one.
C30_RemainingFoodInRange ==
    /\ 0 <= scoreTracker.remainingFoodInLevel
    /\ scoreTracker.remainingFoodInLevel <= requiredFood(scoreTracker.currentLevel)
    /\ scoreTracker.foodEatenCount + scoreTracker.remainingFoodInLevel
           = requiredFood(scoreTracker.currentLevel)

\* C31: in every reachable state lives is between 0 and 3; while the game is
\* running at least one life is left; and lives is 0 only on the game-over
\* screen (Terminated).
C31_LivesInRange ==
    /\ gameState.lives \in 0..InitialLives
    /\ Running => gameState.lives >= 1
    /\ gameState.lives = 0 => Terminated

\* The third collision of a game that had reached level 2: no life is left
\* and the game-over screen is shown.
C31_Witness ==
    /\ Terminated
    /\ gameState.lives = 0
    /\ gameState.level = 2
    /\ ~Running

\* C32 (as stated): in every reachable running state the food cell lies
\* inside the grid and is neither a cell of the snake nor an obstacle cell of
\* the level.
C32_FoodOnFreeCell ==
    Running => /\ gameState.food \in GridCells
               /\ gameState.food \notin SnakeCells(gameState.snake)
               /\ gameState.food \notin obstacles

C34_SnapshotAgreesWithTracker ==
    Running => /\ gameState.score = scoreTracker.totalFoodEaten
               /\ gameState.remainingFood = scoreTracker.remainingFoodInLevel
               /\ gameState.level = scoreTracker.currentLevel

\* C35 (as stated): setLevel or reset called with an id that is not in the
\* catalog fails with the not-found error and leaves the tracker unchanged:
\* current level, remaining food, baseline and cumulative score keep the
\* values they had before the call.
C35_NotFoundLeavesTrackerUnchanged ==
    [][(call'.fn \in {"setLevel", "reset"} /\ ~LevelFound(call.arg))
           => /\ call'.thrown
              /\ call'.tracker = call.tracker
              /\ call'.trackerTs = call.trackerTs
      ]_vars

C37_SpawnCellsFreeOfObstacles ==
    [][(call'.fn = "generateObstacles" /\ call'.w = 20 /\ call'.h = 16)
           => call'.result \cap SnakeCells(initialSnake) = {}
      ]_vars

\* The generator of level 15 has run on the 20x16 grid: the cell (2,2) below
\* the head of the starting snake is an obstacle, the three spawn cells are
\* not.
C37_Witness ==
    /\ call.fn = "generateObstacles"
    /\ call.w = 20
    /\ call.h = 16
    /\ call.id = 15
    /\ Cell(2, 2) \in call.result
    /\ call.result \cap SnakeCells(initialSnake) = {}

====
